---- MODULE Spec2Model ----
(***************************************************************************)
(* images-changer: a single-display media scheduler                        *)
(* (src/src/pages/index.vue).  The model covers the schedule store kept in *)
(* memory (mediaList) and in localStorage, the editing buffer and its      *)
(* dialog, the validation done by addMedia, the selection of the active    *)
(* entry, and the one-second checker loop.                                 *)
(*                                                                         *)
(* JavaScript values are represented as follows:                           *)
(*   - hour and minute labels are the numbers the v-select items carry     *)
(*     (value: i), null is Null;                                           *)
(*   - weekDays is a set of day numbers, null is NullDays;                 *)
(*   - path is a string, null is NullPath;                                 *)
(*   - a store slot is a Media record, Undefined (an array hole read back  *)
(*     as undefined) or JsonNull (null after a JSON round trip);           *)
(*   - array indices are 0-based as in the source.                         *)
(***************************************************************************)
EXTENDS Integers, Sequences, FiniteSets, TLC

VARIABLES
    storage,        \* localStorage[imagesKey]
    mediaList,      \* mediaList.value
    editingMedia,   \* editingMedia.value
    editingIndex,   \* editingIndex.value
    addDialog,      \* addDialog.value
    currentMedia,   \* currentMedia.value
    mounted,        \* the component is mounted
    running,        \* mediaCheckInterval is set
    now,            \* the wall clock read by new Date()
    pendingSelect,  \* electronAPI.selectFile() promises not yet resolved
    outcome,        \* what the last handler reported (alert, return value)
    writeFailures   \* how many times localStorage.setItem has thrown so far

vars == <<storage, mediaList, editingMedia, editingIndex, addDialog,
          currentMedia, mounted, running, now, pendingSelect, outcome,
          writeFailures>>

(***************************************************************************)
(* Bounds of the model                                                     *)
(***************************************************************************)
MaxList == 2          \* addMedia is not offered beyond this store length
MaxPending == 1       \* file-selection requests in flight at once
MaxWriteFailures == 1 \* localStorage.setItem throws at most this often

(***************************************************************************)
(* Values                                                                  *)
(***************************************************************************)
Null == -1
NullPath == "<null>"
NullDays == {Null}
Undefined == [undefined |-> TRUE]
JsonNull == [jsonNull |-> TRUE]
NoMedia == [noMedia |-> TRUE]

SecondsPerHour == 3600
SecondsPerMinute == 60
EndPad == 59
NoDaySentinel == 8

Media(p, wd, hs, ms, he, me) ==
    [path |-> p, weekDays |-> wd, hoursStart |-> hs, minutesStart |-> ms,
     hoursEnd |-> he, minutesEnd |-> me]

EmptyEditingMedia == Media(NullPath, NullDays, Null, Null, Null, Null)

IsNullish(m) == m = Undefined \/ m = JsonNull

\* JavaScript truthiness of the three kinds of field
FalsyNum(v) == v = Null \/ v = 0
FalsyPath(p) == p = NullPath \/ p = ""
FalsyDays(w) == w = NullDays

SetMin(S) == CHOOSE x \in S : \A y \in S : x <= y

(***************************************************************************)
(* TimeMath                                                                *)
(***************************************************************************)
getCurrentWeekDay(t) == IF t.day = 0 THEN 7 ELSE t.day

getCurrentTimeInSeconds(t) ==
    t.hours * SecondsPerHour + t.minutes * SecondsPerMinute + t.seconds

timeToSeconds(hours, minutes, isEndTime) ==
    IF FalsyNum(hours) \/ FalsyNum(minutes)
    THEN 0
    ELSE LET totalSeconds == hours * SecondsPerHour + minutes * SecondsPerMinute
         IN  IF isEndTime THEN totalSeconds + EndPad ELSE totalSeconds

(***************************************************************************)
(* ActiveSelector                                                          *)
(***************************************************************************)
\* isMediaActive on a Media record (on undefined/null the property read throws)
isMediaActive(media, t) ==
    IF \/ FalsyDays(media.weekDays)
       \/ FalsyNum(media.hoursStart) \/ FalsyNum(media.minutesStart)
       \/ FalsyNum(media.hoursEnd) \/ FalsyNum(media.minutesEnd)
    THEN FALSE
    ELSE LET currentDay == getCurrentWeekDay(t)
             currentTime == getCurrentTimeInSeconds(t)
             startTime == timeToSeconds(media.hoursStart, media.minutesStart, FALSE)
             endTime == timeToSeconds(media.hoursEnd, media.minutesEnd, TRUE)
             isDayMatch == currentDay \in media.weekDays
             isTimeMatch == currentTime >= startTime /\ currentTime <= endTime
         IN  isDayMatch /\ isTimeMatch

\* mediaList.value.find(media => isMediaActive(media)) || null.
\* find stops at the first slot that is active or that makes the callback throw.
updateCurrentMedia(list, t) ==
    LET stops == {i \in 1..Len(list) :
                     IsNullish(list[i]) \/ isMediaActive(list[i], t)}
    IN  IF stops = {}
        THEN [threw |-> FALSE, cur |-> NoMedia]
        ELSE LET i == SetMin(stops)
             IN  IF IsNullish(list[i])
                 THEN [threw |-> TRUE, cur |-> NoMedia]
                 ELSE [threw |-> FALSE, cur |-> list[i]]

(***************************************************************************)
(* ScheduleStore: sorting                                                  *)
(***************************************************************************)
\* a variant without the sentinel: entries without days come first
minDayOfEmptyFirst(a) ==
    IF ~FalsyDays(a.weekDays) /\ Cardinality(a.weekDays) > 0
    THEN SetMin(a.weekDays)
    ELSE 0

minDayOf(a) ==
    IF ~FalsyDays(a.weekDays) /\ Cardinality(a.weekDays) > 0
    THEN SetMin(a.weekDays)
    ELSE NoDaySentinel

\* the comparator of sortMediaList
compareMedia(a, b) ==
    LET aMinDay == minDayOf(a)
        bMinDay == minDayOf(b)
    IN  IF aMinDay # bMinDay
        THEN aMinDay - bMinDay
        ELSE timeToSeconds(a.hoursStart, a.minutesStart, FALSE)
             - timeToSeconds(b.hoursStart, b.minutesStart, FALSE)

RECURSIVE SelectSlots(_, _)
SelectSlots(s, keepUndefined) ==
    IF s = <<>> THEN <<>>
    ELSE LET rest == SelectSlots(Tail(s), keepUndefined)
         IN  IF (Head(s) = Undefined) = keepUndefined
             THEN <<Head(s)>> \o rest ELSE rest

\* x goes after every element that does not compare greater than it (stable)
RECURSIVE InsertSorted(_, _)
InsertSorted(sorted, x) ==
    IF sorted = <<>> THEN <<x>>
    ELSE IF compareMedia(Head(sorted), x) > 0
         THEN <<x>> \o sorted
         ELSE <<Head(sorted)>> \o InsertSorted(Tail(sorted), x)

RECURSIVE StableSort(_)
StableSort(s) ==
    IF s = <<>> THEN <<>>
    ELSE InsertSorted(StableSort(SubSeq(s, 1, Len(s) - 1)), s[Len(s)])

\* [...mediaArray].sort(cmp): undefined slots go last without being compared;
\* a null slot is passed to the comparator, which throws on a.weekDays.
sortMediaList(mediaArray) ==
    LET defined == SelectSlots(mediaArray, FALSE)
        undef == SelectSlots(mediaArray, TRUE)
    IN  IF Len(defined) >= 2 /\ \E i \in 1..Len(defined) : defined[i] = JsonNull
        THEN [threw |-> TRUE, val |-> <<>>]
        ELSE [threw |-> FALSE,
              val |-> (IF Len(defined) >= 2 THEN StableSort(defined) ELSE defined)
                      \o undef]

(***************************************************************************)
(* ScheduleStore: persistence                                              *)
(***************************************************************************)
StorageAbsent == [kind |-> "absent"]
StorageCorrupt == [kind |-> "corrupt"]      \* a string JSON.parse rejects

\* JSON.stringify of the array: an undefined slot is written as null
jsonSlot(m) == IF m = Undefined THEN JsonNull ELSE m

JSONstringify(list) ==
    [kind |-> "json", items |-> [i \in 1..Len(list) |-> jsonSlot(list[i])]]

\* JSON.parse of a stored string
JSONparse(stored) ==
    IF stored.kind = "json"
    THEN [threw |-> FALSE, val |-> stored.items]
    ELSE [threw |-> TRUE, val |-> <<>>]

\* a variant that takes only well-formed JSON for an existing item
HasItemWellFormed(stored) == stored.kind = "json"

\* localStorage.getItem(imagesKey) is falsy when the key is absent
HasItem(stored) == stored.kind # "absent"

\* a variant that writes the empty collection unconditionally
initializeLocalStorageAlways(stored) == JSONstringify(<<>>)

initializeLocalStorage(stored) ==
    IF ~HasItem(stored) THEN JSONstringify(<<>>) ELSE stored

\* the value of mediaList after loadMediaList, given its value before
loadMediaList(stored, before) ==
    IF HasItem(stored)
    THEN LET loadedMedia == JSONparse(stored)
         IN  IF loadedMedia.threw
             THEN <<>>
             ELSE LET sorted == sortMediaList(loadedMedia.val)
                  IN  IF sorted.threw THEN <<>> ELSE sorted.val
    ELSE before

(***************************************************************************)
(* Validator                                                               *)
(***************************************************************************)
\* a variant of the guard that forgets the path
IsIncompleteWithoutPath(m) ==
    \/ FalsyNum(m.hoursStart) \/ FalsyNum(m.minutesStart)
    \/ FalsyNum(m.hoursEnd) \/ FalsyNum(m.minutesEnd)
    \/ FalsyDays(m.weekDays)

\* the first guard of addMedia: some field is falsy
IsIncomplete(m) ==
    \/ FalsyPath(m.path)
    \/ FalsyNum(m.hoursStart) \/ FalsyNum(m.minutesStart)
    \/ FalsyNum(m.hoursEnd) \/ FalsyNum(m.minutesEnd)
    \/ FalsyDays(m.weekDays)

\* a variant that checks the fields but not their order
validateTimeIntervalUnordered(m) ==
    ~(\/ FalsyNum(m.hoursStart) \/ FalsyNum(m.minutesStart)
      \/ FalsyNum(m.hoursEnd) \/ FalsyNum(m.minutesEnd))

validateTimeInterval(m) ==
    IF \/ FalsyNum(m.hoursStart) \/ FalsyNum(m.minutesStart)
       \/ FalsyNum(m.hoursEnd) \/ FalsyNum(m.minutesEnd)
    THEN FALSE
    ELSE timeToSeconds(m.hoursStart, m.minutesStart, FALSE)
         <= timeToSeconds(m.hoursEnd, m.minutesEnd, FALSE)

\* a variant of the comparison that also looks at the end time
SameKeyAtWithEnd(list, index, m) ==
    /\ list[index + 1].path = m.path
    /\ list[index + 1].hoursStart = m.hoursStart
    /\ list[index + 1].minutesStart = m.minutesStart
    /\ list[index + 1].hoursEnd = m.hoursEnd
    /\ list[index + 1].minutesEnd = m.minutesEnd

\* the callback of mediaList.value.some(...) at 0-based position index
SameKeyAt(list, index, m) ==
    /\ list[index + 1].path = m.path
    /\ list[index + 1].hoursStart = m.hoursStart
    /\ list[index + 1].minutesStart = m.minutesStart

\* a variant that never skips the entry being edited
SkippedNever(index, idx) == FALSE

Skipped(index, idx) == idx # Null /\ index = idx

\* some() stops at the first slot for which the callback returns true or
\* throws (media.path on undefined/null).
hasDuplicateMedia(list, m, idx) ==
    LET stops == {i \in 0..(Len(list) - 1) :
                     /\ ~Skipped(i, idx)
                     /\ (IsNullish(list[i + 1]) \/ SameKeyAt(list, i, m))}
    IN  IF stops = {}
        THEN [threw |-> FALSE, val |-> FALSE]
        ELSE IF IsNullish(list[SetMin(stops) + 1])
             THEN [threw |-> TRUE, val |-> FALSE]
             ELSE [threw |-> FALSE, val |-> TRUE]

(***************************************************************************)
(* Array mutations                                                         *)
(***************************************************************************)
\* mediaList.value[index] = m; writing past the end leaves holes
AssignAt(list, index, m) ==
    [i \in 1..(IF index + 1 > Len(list) THEN index + 1 ELSE Len(list)) |->
        IF i = index + 1 THEN m
        ELSE IF i <= Len(list) THEN list[i] ELSE Undefined]

\* mediaList.value.splice(index, 1)
SpliceOne(list, index) ==
    SubSeq(list, 1, index) \o SubSeq(list, index + 2, Len(list))

\* what a handler reports: its result, the alert it raised ("" for none) and
\* the exception it logged or let escape ("" for none)
Report(op, res, alert, error) ==
    [op |-> op, res |-> res, alert |-> alert, error |-> error]
Quiet == Report("none", "none", "", "")    \* the last handler reported nothing

(***************************************************************************)
(* Inputs of the user interface and of the environment                     *)
(***************************************************************************)
Paths == {"a.png"}             \* files the file dialog can return
HourItems == {9}                        \* items of `hours` offered
MinuteItems == {30, 45}              \* items of `minutes` offered
DaySelections == {{}, {7}}      \* selections of the weekDays v-select
Clock(d, h, m, sec) == [day |-> d, hours |-> h, minutes |-> m, seconds |-> sec]
ClockValues ==                          \* instants new Date() returns
    {Clock(0, 9, 45, 59), Clock(0, 9, 46, 0)}

(***************************************************************************)
(* Init: the page before it is mounted                                     *)
(***************************************************************************)
FreshMemory ==
    /\ mediaList = <<>>
    /\ editingMedia = EmptyEditingMedia
    /\ editingIndex = Null
    /\ addDialog = FALSE
    /\ currentMedia = NoMedia
    /\ mounted = FALSE
    /\ running = FALSE
    /\ pendingSelect = 0
    /\ outcome = Quiet

Init ==
    /\ FreshMemory
    /\ storage \in {StorageAbsent, StorageCorrupt}
    /\ writeFailures = 0
    /\ now \in ClockValues

(***************************************************************************)
(* onMounted / onUnmounted                                                 *)
(***************************************************************************)
\* initializeLocalStorage(); loadMediaList(); startMediaChecker().
\* setItemFails: localStorage.setItem throws; nothing after it runs.
\* startMediaChecker calls updateCurrentMedia before setInterval.
OnMounted(setItemFails) ==
    /\ ~mounted
    /\ setItemFails => (~HasItem(storage) /\ writeFailures < MaxWriteFailures)
    /\ writeFailures' = IF setItemFails THEN writeFailures + 1 ELSE writeFailures
    /\ mounted' = TRUE
    /\ IF ~HasItem(storage) /\ setItemFails
       THEN /\ outcome' = Report("onMounted", "uncaught", "", "QuotaExceededError")
            /\ UNCHANGED <<storage, mediaList, currentMedia, running>>
       ELSE LET stored == initializeLocalStorage(storage)
                loaded == loadMediaList(stored, mediaList)
                upd == updateCurrentMedia(loaded, now)
            IN  /\ storage' = stored
                /\ mediaList' = loaded
                /\ IF upd.threw
                   THEN /\ outcome' = Report("onMounted", "uncaught", "", "TypeError")
                        /\ UNCHANGED <<currentMedia, running>>
                   ELSE /\ currentMedia' = upd.cur
                        /\ running' = TRUE
                        /\ outcome' = Report("onMounted", "ok", "", "")
    /\ UNCHANGED <<editingMedia, editingIndex, addDialog, now, pendingSelect>>

\* the page is torn down: the interval is cleared and the refs are gone
OnUnmounted ==
    /\ mounted
    /\ mediaList' = <<>>
    /\ editingMedia' = EmptyEditingMedia
    /\ editingIndex' = Null
    /\ addDialog' = FALSE
    /\ currentMedia' = NoMedia
    /\ mounted' = FALSE
    /\ running' = FALSE
    /\ pendingSelect' = 0
    /\ outcome' = Quiet
    /\ UNCHANGED <<writeFailures, storage, now>>

(***************************************************************************)
(* Scheduler loop                                                          *)
(***************************************************************************)
\* the setInterval callback; an exception leaves currentMedia as it was
Tick ==
    /\ running
    /\ LET upd == updateCurrentMedia(mediaList, now)
       IN  IF upd.threw
           THEN /\ outcome' = Report("tick", "uncaught", "", "TypeError")
                /\ UNCHANGED currentMedia
           ELSE /\ currentMedia' = upd.cur
                /\ outcome' = Quiet
    /\ UNCHANGED <<writeFailures, storage, mediaList, editingMedia, editingIndex, addDialog,
                   mounted, running, now, pendingSelect>>

\* wall-clock time moves on
TimePasses ==
    /\ \E t \in ClockValues \ {now} : now' = t
    /\ UNCHANGED <<writeFailures, storage, mediaList, editingMedia, editingIndex, addDialog,
                   currentMedia, mounted, running, pendingSelect, outcome>>

(***************************************************************************)
(* The add/edit dialog                                                     *)
(***************************************************************************)
\* the "add" button of the settings dialog: addDialog = true, nothing else
OpenAddDialog ==
    /\ mounted /\ ~addDialog
    /\ addDialog' = TRUE
    /\ outcome' = Quiet
    /\ UNCHANGED <<writeFailures, storage, mediaList, editingMedia, editingIndex, currentMedia,
                   mounted, running, now, pendingSelect>>

\* v-model of the v-dialog: a click outside or Escape sets addDialog = false
DismissAddDialog ==
    /\ mounted /\ addDialog
    /\ addDialog' = FALSE
    /\ outcome' = Quiet
    /\ UNCHANGED <<writeFailures, storage, mediaList, editingMedia, editingIndex, currentMedia,
                   mounted, running, now, pendingSelect>>

\* the close button: closeAddModal -> resetEditingMedia
CloseAddModal ==
    /\ mounted /\ addDialog
    /\ addDialog' = FALSE
    /\ editingMedia' = EmptyEditingMedia
    /\ editingIndex' = Null
    /\ outcome' = Quiet
    /\ UNCHANGED <<writeFailures, storage, mediaList, currentMedia, mounted, running, now,
                   pendingSelect>>

\* the pencil button of a list row
EditMedia(index) ==
    /\ mounted /\ ~addDialog
    /\ index \in 0..(Len(mediaList) - 1)
    /\ IF ~IsNullish(mediaList[index + 1])
       THEN /\ editingMedia' = mediaList[index + 1]
            /\ editingIndex' = index
            /\ addDialog' = TRUE
       ELSE UNCHANGED <<editingMedia, editingIndex, addDialog>>
    /\ outcome' = Quiet
    /\ UNCHANGED <<writeFailures, storage, mediaList, currentMedia, mounted, running, now,
                   pendingSelect>>

\* the selectors of the form from top to bottom
FormOrder == <<"weekDays", "hoursStart", "minutesStart", "hoursEnd", "minutesEnd">>
IsNullField(m, field) ==
    IF field = "weekDays" THEN m[field] = NullDays ELSE m[field] = Null
\* the user fills the selectors from top to bottom
FilledAbove(field) ==
    \A i, j \in 1..Len(FormOrder) :
        (FormOrder[j] = field /\ i < j) => ~IsNullField(editingMedia, FormOrder[i])

\* v-model of one form control
SetField(field, value) ==
    /\ mounted /\ addDialog
    /\ FilledAbove(field)
    /\ editingMedia[field] # value
    /\ editingMedia' = [editingMedia EXCEPT ![field] = value]
    /\ outcome' = Quiet
    /\ UNCHANGED <<writeFailures, storage, mediaList, editingIndex, addDialog, currentMedia,
                   mounted, running, now, pendingSelect>>

SetWeekDays == \E v \in DaySelections : SetField("weekDays", v)
SetHoursStart == \E v \in HourItems : SetField("hoursStart", v)
SetMinutesStart == \E v \in MinuteItems : SetField("minutesStart", v)
SetHoursEnd == \E v \in HourItems : SetField("hoursEnd", v)
SetMinutesEnd == \E v \in MinuteItems : SetField("minutesEnd", v)

\* selectMedia: the request is sent, the promise is pending
SelectMedia ==
    /\ mounted /\ addDialog
    /\ pendingSelect < MaxPending
    /\ pendingSelect' = pendingSelect + 1
    /\ outcome' = Quiet
    /\ UNCHANGED <<writeFailures, storage, mediaList, editingMedia, editingIndex, addDialog,
                   currentMedia, mounted, running, now>>

\* the promise resolves with the chosen path, or "" when cancelled
SelectFileResolved(result) ==
    /\ mounted
    /\ pendingSelect > 0
    /\ pendingSelect' = pendingSelect - 1
    /\ editingMedia' = IF result # ""
                       THEN [editingMedia EXCEPT !.path = result]
                       ELSE editingMedia
    /\ outcome' = Quiet
    /\ UNCHANGED <<writeFailures, storage, mediaList, editingIndex, addDialog, currentMedia,
                   mounted, running, now>>

(***************************************************************************)
(* Store mutations                                                         *)
(***************************************************************************)
\* the array after the assignment or push of addMedia
Mutated(list, m, idx) ==
    IF idx # Null THEN AssignAt(list, idx, m) ELSE Append(list, m)

\* the try block of addMedia, once validation has passed
CommitMedia(setItemFails) ==
    LET mutated == Mutated(mediaList, editingMedia, editingIndex)
        sorted == sortMediaList(mutated)
        upd == updateCurrentMedia(sorted.val, now)
    IN  IF sorted.threw
        THEN /\ mediaList' = mutated
             /\ outcome' = Report("addMedia", "false", "saveError", "TypeError")
             /\ UNCHANGED <<storage, currentMedia, editingMedia, editingIndex,
                            addDialog>>
        ELSE IF setItemFails
        THEN /\ mediaList' = sorted.val
             /\ outcome' = Report("addMedia", "false", "saveError",
                                "QuotaExceededError")
             /\ UNCHANGED <<storage, currentMedia, editingMedia, editingIndex,
                            addDialog>>
        ELSE IF upd.threw
        THEN /\ mediaList' = sorted.val
             /\ storage' = JSONstringify(sorted.val)
             /\ outcome' = Report("addMedia", "false", "saveError", "TypeError")
             /\ UNCHANGED <<currentMedia, editingMedia, editingIndex, addDialog>>
        ELSE /\ mediaList' = sorted.val
             /\ storage' = JSONstringify(sorted.val)
             /\ currentMedia' = upd.cur
             /\ addDialog' = FALSE
             /\ editingMedia' = EmptyEditingMedia
             /\ editingIndex' = Null
             /\ outcome' = Report("addMedia", "true", "", "")

\* addMedia gets as far as localStorage.setItem
AddReachesSetItem ==
    /\ ~IsIncomplete(editingMedia)
    /\ validateTimeInterval(editingMedia)
    /\ ~hasDuplicateMedia(mediaList, editingMedia, editingIndex).threw
    /\ ~hasDuplicateMedia(mediaList, editingMedia, editingIndex).val
    /\ ~sortMediaList(Mutated(mediaList, editingMedia, editingIndex)).threw

\* the save/update button of the dialog
AddMedia(setItemFails) ==
    /\ mounted /\ addDialog
    /\ setItemFails => (AddReachesSetItem /\ writeFailures < MaxWriteFailures)
    /\ writeFailures' = IF setItemFails THEN writeFailures + 1 ELSE writeFailures
    /\ Len(Mutated(mediaList, editingMedia, editingIndex)) <= MaxList
    /\ LET dup == hasDuplicateMedia(mediaList, editingMedia, editingIndex)
       IN  IF IsIncomplete(editingMedia)
           THEN /\ outcome' = Report("addMedia", "false", "", "")
                /\ UNCHANGED <<storage, mediaList, editingMedia, editingIndex,
                               addDialog, currentMedia>>
           ELSE IF ~validateTimeInterval(editingMedia)
           THEN /\ outcome' = Report("addMedia", "false", "interval", "")
                /\ UNCHANGED <<storage, mediaList, editingMedia, editingIndex,
                               addDialog, currentMedia>>
           ELSE IF dup.threw
           THEN /\ outcome' = Report("addMedia", "uncaught", "", "TypeError")
                /\ UNCHANGED <<storage, mediaList, editingMedia, editingIndex,
                               addDialog, currentMedia>>
           ELSE IF dup.val
           THEN /\ outcome' = Report("addMedia", "false", "duplicate", "")
                /\ UNCHANGED <<storage, mediaList, editingMedia, editingIndex,
                               addDialog, currentMedia>>
           ELSE CommitMedia(setItemFails)
    /\ UNCHANGED <<mounted, running, now, pendingSelect>>

\* the trash button of a list row; confirmed is the answer to confirm()
DeleteMedia(index, confirmed, setItemFails) ==
    /\ mounted /\ ~addDialog
    /\ index \in 0..(Len(mediaList) - 1)
    /\ setItemFails => /\ confirmed
                       /\ ~sortMediaList(SpliceOne(mediaList, index)).threw
                       /\ writeFailures < MaxWriteFailures
    /\ writeFailures' = IF setItemFails THEN writeFailures + 1 ELSE writeFailures
    /\ IF ~confirmed
       THEN /\ outcome' = Report("deleteMedia", "declined", "", "")
            /\ UNCHANGED <<storage, mediaList, currentMedia>>
       ELSE LET sorted == sortMediaList(SpliceOne(mediaList, index))
                upd == updateCurrentMedia(sorted.val, now)
            IN  IF sorted.threw
                THEN /\ mediaList' = SpliceOne(mediaList, index)
                     /\ outcome' = Report("deleteMedia", "uncaught", "", "TypeError")
                     /\ UNCHANGED <<storage, currentMedia>>
                ELSE IF setItemFails
                THEN /\ mediaList' = sorted.val
                     /\ outcome' = Report("deleteMedia", "uncaught", "",
                                        "QuotaExceededError")
                     /\ UNCHANGED <<storage, currentMedia>>
                ELSE IF upd.threw
                THEN /\ mediaList' = sorted.val
                     /\ storage' = JSONstringify(sorted.val)
                     /\ outcome' = Report("deleteMedia", "uncaught", "", "TypeError")
                     /\ UNCHANGED currentMedia
                ELSE /\ mediaList' = sorted.val
                     /\ storage' = JSONstringify(sorted.val)
                     /\ currentMedia' = upd.cur
                     /\ outcome' = Report("deleteMedia", "deleted", "", "")
    /\ UNCHANGED <<editingMedia, editingIndex, addDialog, mounted, running, now,
                   pendingSelect>>

(***************************************************************************)
(* The page as a state machine                                             *)
(***************************************************************************)
Next ==
    \/ \E f \in BOOLEAN : OnMounted(f)
    \/ OnUnmounted
    \/ Tick
    \/ TimePasses
    \/ OpenAddDialog
    \/ DismissAddDialog
    \/ CloseAddModal
    \/ \E i \in 0..(MaxList - 1) : EditMedia(i)
    \/ SetWeekDays
    \/ SetHoursStart
    \/ SetMinutesStart
    \/ SetHoursEnd
    \/ SetMinutesEnd
    \/ SelectMedia
    \/ \E r \in Paths \cup {""} : SelectFileResolved(r)
    \/ \E f \in BOOLEAN : AddMedia(f)
    \/ \E i \in 0..(MaxList - 1), c, f \in BOOLEAN : DeleteMedia(i, c, f)

Spec == Init /\ [][Next]_vars

(***************************************************************************)
(* The functions on their own: SpecFn starts with one call pending, its    *)
(* arguments drawn from the sets below, and makes the call.                *)
(***************************************************************************)
FnMaxList == 2                              \* longest store passed to a function

HoursLength == 24                           \* hours: Array.from({length: 24})
MinutesLength == 60                         \* minutes: Array.from({length: 60})
HourLabels == 0..(HoursLength - 1)
MinuteLabels == 0..(MinutesLength - 1)

FnHourItems == {0, 9, 23}
FnMinuteItems == {0, 30, 58, 59}
FnDaySelections == {{}, {1}, {7}, {1, 7}}
FnClockValues ==
    {Clock(d, t[1], t[2], t[3]) :
        d \in {0, 1},
        t \in {<<0, 0, 0>>, <<9, 0, 0>>, <<9, 30, 0>>, <<9, 40, 0>>,
               <<23, 58, 59>>, <<23, 59, 0>>, <<23, 59, 59>>}}

\* entries passed to isMediaActive
FnActiveEntries ==
    {Media("a.png", wd, hs, ms, he, me) :
        wd \in FnDaySelections, hs \in FnHourItems, ms \in FnMinuteItems,
        he \in FnHourItems, me \in FnMinuteItems}

\* entries of the stores passed to updateCurrentMedia
FnSelectEntries ==
    {m \in {Media("a.png", wd, 9, ms, he, me) :
              wd \in {{1}, {7}, {1, 7}}, ms \in {0, 30}, he \in {9, 10},
              me \in {0, 45}} :
        m.hoursStart * 60 + m.minutesStart <= m.hoursEnd * 60 + m.minutesEnd}

\* entries and candidates passed to hasDuplicateMedia
FnDuplicateEntries ==
    {Media(p, wd, 9, ms, 10, me) :
        p \in {"a.png", "b.png"}, wd \in {{1}, {7}}, ms \in {30, 45},
        me \in {30, 45}}

\* candidates in the editing buffer when validateTimeInterval is called
FnIntervalCandidates ==
    {Media("a.png", {1}, hs, ms, he, me) :
        hs \in {Null, 0, 9, 10, 23}, ms \in {Null, 0, 5, 59},
        he \in {Null, 0, 9, 10, 23}, me \in {Null, 0, 5, 59}}

\* entries of the arrays passed to sortMediaList
FnSortEntries ==
    {Media(p, wd, hs, ms, 23, 59) :
        p \in {"a.png", "b.png"}, wd \in {NullDays, {}, {1}, {7}, {1, 7}},
        hs \in {8, 9}, ms \in {0, 30}}

SeqsUpTo(S, n) == UNION {[1..k -> S] : k \in 0..n}

\* stores as the page keeps them: sorted by sortMediaList
SortedStores(S) == {sortMediaList(l).val : l \in SeqsUpTo(S, FnMaxList)}

FnPending(op, args) == [op |-> op, res |-> "pending", args |-> args]
FnReturned(op, args, val) ==
    [op |-> op, res |-> "returned", args |-> args, val |-> val]

FnIdle ==
    /\ storage = JSONstringify(<<>>)
    /\ currentMedia = NoMedia
    /\ addDialog = FALSE
    /\ mounted = TRUE
    /\ running = TRUE
    /\ pendingSelect = 0
    /\ writeFailures = 0

InitTimeToSeconds ==
    /\ FnIdle
    /\ mediaList = <<>>
    /\ editingMedia = EmptyEditingMedia
    /\ editingIndex = Null
    /\ now = Clock(1, 0, 0, 0)
    /\ \E h \in HourLabels \cup {Null}, m \in MinuteLabels \cup {Null},
          e \in BOOLEAN :
          outcome = FnPending("timeToSeconds", <<h, m, e>>)

InitIsMediaActive ==
    /\ FnIdle
    /\ mediaList = <<>>
    /\ editingMedia = EmptyEditingMedia
    /\ editingIndex = Null
    /\ now \in FnClockValues
    /\ \E media \in FnActiveEntries :
          outcome = FnPending("isMediaActive", <<media>>)

InitUpdateCurrentMedia ==
    /\ FnIdle
    /\ mediaList \in SortedStores(FnSelectEntries)
    /\ editingMedia = EmptyEditingMedia
    /\ editingIndex = Null
    /\ now \in FnClockValues
    /\ outcome = FnPending("updateCurrentMedia", <<>>)

\* stores in which no two entries share path and start, as addMedia leaves them
DistinctKeys(list) ==
    \A i, j \in 1..Len(list) :
        i < j => ~(/\ list[i].path = list[j].path
                   /\ list[i].hoursStart = list[j].hoursStart
                   /\ list[i].minutesStart = list[j].minutesStart)

InitHasDuplicateMedia ==
    /\ FnIdle
    /\ mediaList \in {l \in SortedStores(FnDuplicateEntries) : DistinctKeys(l)}
    /\ editingMedia \in FnDuplicateEntries
    /\ editingIndex \in {Null} \cup 0..(FnMaxList - 1)
    /\ now = Clock(1, 0, 0, 0)
    /\ outcome = FnPending("hasDuplicateMedia", <<>>)

InitValidateTimeInterval ==
    /\ FnIdle
    /\ mediaList = <<>>
    /\ editingMedia \in FnIntervalCandidates
    /\ editingIndex = Null
    /\ now = Clock(1, 0, 0, 0)
    /\ outcome = FnPending("validateTimeInterval", <<>>)

InitSortMediaList ==
    /\ FnIdle
    /\ mediaList = <<>>
    /\ editingMedia = EmptyEditingMedia
    /\ editingIndex = Null
    /\ now = Clock(1, 0, 0, 0)
    /\ \E mediaArray \in SeqsUpTo(FnSortEntries, FnMaxList) :
          outcome = FnPending("sortMediaList", <<mediaArray>>)

InitFn ==
    \/ InitTimeToSeconds
    \/ InitIsMediaActive
    \/ InitUpdateCurrentMedia
    \/ InitHasDuplicateMedia
    \/ InitValidateTimeInterval
    \/ InitSortMediaList

CallTimeToSeconds ==
    /\ outcome.op = "timeToSeconds" /\ outcome.res = "pending"
    /\ outcome' = FnReturned("timeToSeconds", outcome.args,
                     timeToSeconds(outcome.args[1], outcome.args[2],
                                   outcome.args[3]))
    /\ UNCHANGED <<storage, mediaList, editingMedia, editingIndex, addDialog,
                   currentMedia, mounted, running, now, pendingSelect,
                   writeFailures>>

CallIsMediaActive ==
    /\ outcome.op = "isMediaActive" /\ outcome.res = "pending"
    /\ outcome' = FnReturned("isMediaActive", outcome.args,
                     isMediaActive(outcome.args[1], now))
    /\ UNCHANGED <<storage, mediaList, editingMedia, editingIndex, addDialog,
                   currentMedia, mounted, running, now, pendingSelect,
                   writeFailures>>

CallUpdateCurrentMedia ==
    /\ outcome.op = "updateCurrentMedia" /\ outcome.res = "pending"
    /\ LET upd == updateCurrentMedia(mediaList, now)
       IN  IF upd.threw
           THEN /\ outcome' = [op |-> "updateCurrentMedia", res |-> "threw"]
                /\ UNCHANGED currentMedia
           ELSE /\ currentMedia' = upd.cur
                /\ outcome' = FnReturned("updateCurrentMedia", <<>>, upd.cur)
    /\ UNCHANGED <<storage, mediaList, editingMedia, editingIndex, addDialog,
                   mounted, running, now, pendingSelect, writeFailures>>

CallHasDuplicateMedia ==
    /\ outcome.op = "hasDuplicateMedia" /\ outcome.res = "pending"
    /\ LET dup == hasDuplicateMedia(mediaList, editingMedia, editingIndex)
       IN  outcome' = IF dup.threw
                      THEN [op |-> "hasDuplicateMedia", res |-> "threw"]
                      ELSE FnReturned("hasDuplicateMedia", <<>>, dup.val)
    /\ UNCHANGED <<storage, mediaList, editingMedia, editingIndex, addDialog,
                   currentMedia, mounted, running, now, pendingSelect,
                   writeFailures>>

CallValidateTimeInterval ==
    /\ outcome.op = "validateTimeInterval" /\ outcome.res = "pending"
    /\ outcome' = FnReturned("validateTimeInterval", <<>>,
                     validateTimeInterval(editingMedia))
    /\ UNCHANGED <<storage, mediaList, editingMedia, editingIndex, addDialog,
                   currentMedia, mounted, running, now, pendingSelect,
                   writeFailures>>

\* the argument stays in args (the spread copies it), the result is val
CallSortMediaList ==
    /\ outcome.op = "sortMediaList" /\ outcome.res = "pending"
    /\ LET sorted == sortMediaList(outcome.args[1])
       IN  outcome' = IF sorted.threw
                      THEN [op |-> "sortMediaList", res |-> "threw"]
                      ELSE FnReturned("sortMediaList", outcome.args, sorted.val)
    /\ UNCHANGED <<storage, mediaList, editingMedia, editingIndex, addDialog,
                   currentMedia, mounted, running, now, pendingSelect,
                   writeFailures>>

NextFn ==
    \/ CallTimeToSeconds
    \/ CallIsMediaActive
    \/ CallUpdateCurrentMedia
    \/ CallHasDuplicateMedia
    \/ CallValidateTimeInterval
    \/ CallSortMediaList

SpecFn == InitFn /\ [][NextFn]_vars

(***************************************************************************)
(* The specification's reading of the schedule rules, used to state the    *)
(* properties below                                                        *)
(***************************************************************************)
DaySeconds(h, m) == h * SecondsPerHour + m * SecondsPerMinute
StartSeconds(e) == DaySeconds(e.hoursStart, e.minutesStart)
EndSeconds(e) == DaySeconds(e.hoursEnd, e.minutesEnd)
WeekDayOf(t) == IF t.day = 0 THEN 7 ELSE t.day
Eligible(e, t) ==
    /\ WeekDayOf(t) \in e.weekDays
    /\ StartSeconds(e) <= getCurrentTimeInSeconds(t)
    /\ getCurrentTimeInSeconds(t) <= EndSeconds(e) + EndPad
MinWeekDay(e) ==
    IF e.weekDays = {} \/ e.weekDays = NullDays
    THEN NoDaySentinel ELSE SetMin(e.weekDays)
IsMedia(m) == ~IsNullish(m) /\ m # NoMedia
Returned(op) == outcome.op = op /\ outcome.res = "returned"

(***************************************************************************)
(* C1: for every store and every instant, updateCurrentMedia publishes the *)
(* first entry in store order that is eligible at that instant, or none    *)
(* iff no entry is eligible; of two eligible entries the one with the      *)
(* lower minimum weekday, then the earlier start, is the one published.    *)
(***************************************************************************)
C1_SelectsFirstEligible ==
    outcome.op = "updateCurrentMedia" /\ outcome.res # "pending" =>
        /\ outcome.res = "returned"
        /\ LET eligible == {i \in 1..Len(mediaList) : Eligible(mediaList[i], now)}
           IN  IF eligible = {}
               THEN currentMedia = NoMedia
               ELSE /\ currentMedia = mediaList[SetMin(eligible)]
                    /\ \A i \in eligible :
                          \/ MinWeekDay(currentMedia) < MinWeekDay(mediaList[i])
                          \/ /\ MinWeekDay(currentMedia) = MinWeekDay(mediaList[i])
                             /\ StartSeconds(currentMedia)
                                   <= StartSeconds(mediaList[i])

(***************************************************************************)
(* C2: isMediaActive(entry) holds iff the weekday of now (Sunday = 7) is   *)
(* in weekDays and startSeconds <= t <= endSeconds + 59, for entries with  *)
(* hour labels 0..23 and minute labels 0..59.                              *)
(***************************************************************************)
C2_ActiveIffInWindow ==
    Returned("isMediaActive") =>
        (outcome.val <=> Eligible(outcome.args[1], now))

(***************************************************************************)
(* C3: timeToSeconds(h, m, false) = h*3600 + m*60 and                      *)
(* timeToSeconds(h, m, true) = h*3600 + m*60 + 59 for every hour label     *)
(* 0..23 and minute label 0..59; 0 when either argument is null.           *)
(***************************************************************************)
C3_DaySecondsOfLabels ==
    Returned("timeToSeconds") =>
        LET h == outcome.args[1]
            m == outcome.args[2]
            isEnd == outcome.args[3]
        IN  outcome.val =
                IF h = Null \/ m = Null THEN 0
                ELSE DaySeconds(h, m) + (IF isEnd THEN EndPad ELSE 0)

(***************************************************************************)
(* C10: hasDuplicateMedia is true iff some store entry at a position other *)
(* than the editing index has the candidate's path, hoursStart and         *)
(* minutesStart; weekDays and the end time are not compared, and the entry *)
(* being edited is not compared with itself.                               *)
(***************************************************************************)
SameKey(a, b) ==
    /\ a.path = b.path
    /\ a.hoursStart = b.hoursStart
    /\ a.minutesStart = b.minutesStart

C10_DuplicateIffSameKeyElsewhere ==
    outcome.op = "hasDuplicateMedia" /\ outcome.res # "pending" =>
        /\ outcome.res = "returned"
        /\ outcome.val <=>
              \E i \in 0..(Len(mediaList) - 1) :
                  /\ i # editingIndex
                  /\ SameKey(mediaList[i + 1], editingMedia)
        /\ (/\ editingIndex # Null /\ editingIndex < Len(mediaList)
            /\ mediaList[editingIndex + 1] = editingMedia
            /\ \A i \in 0..(Len(mediaList) - 1) :
                  i # editingIndex => ~SameKey(mediaList[i + 1], editingMedia))
           => ~outcome.val

\* the entry at position 0 is edited into a candidate with the path and start
\* of the entry at position 1, from which it differs in weekDays and end time
C10_Witness ==
    /\ Returned("hasDuplicateMedia")
    /\ outcome.val
    /\ editingIndex = 0
    /\ Len(mediaList) = 2
    /\ SameKey(mediaList[2], editingMedia)
    /\ mediaList[2].weekDays # editingMedia.weekDays
    /\ mediaList[2].minutesEnd # editingMedia.minutesEnd

(***************************************************************************)
(* C4: when the persistence write of an add or replace commit fails, the   *)
(* caller is notified and the in-memory collection equals the persisted    *)
(* one (the mutation is not committed in memory).                          *)
(***************************************************************************)
C4_FailedWriteLeavesMemoryAsPersisted ==
    (/\ outcome.op = "addMedia"
     /\ outcome.error = "QuotaExceededError") =>
        /\ outcome.alert = "saveError"
        /\ storage = JSONstringify(mediaList)

(***************************************************************************)
(* C5: after every successful add, replace or delete the persisted         *)
(* collection is the whole sorted in-memory collection, and loading it     *)
(* again yields that collection.                                           *)
(***************************************************************************)
CommitSucceeded ==
    \/ outcome.op = "addMedia" /\ outcome.res = "true"
    \/ outcome.op = "deleteMedia" /\ outcome.res = "deleted"

C5_SuccessfulCommitRoundTrips ==
    CommitSucceeded =>
        /\ storage = JSONstringify(mediaList)
        /\ sortMediaList(mediaList) = [threw |-> FALSE, val |-> mediaList]
        /\ JSONstringify(loadMediaList(storage, <<>>)) = storage

(***************************************************************************)
(* C6: a commit rejected by validation (incomplete fields, invalid         *)
(* interval, duplicate) changes neither the in-memory store, nor the       *)
(* persisted collection, nor the published item.  As amended: addMedia     *)
(* returns false; an invalid interval and a duplicate raise an alert       *)
(* naming the reason, incomplete fields are rejected without a message.    *)
(***************************************************************************)
SpecIncomplete(m) ==
    \/ m.path = NullPath \/ m.weekDays = NullDays
    \/ m.hoursStart = Null \/ m.minutesStart = Null
    \/ m.hoursEnd = Null \/ m.minutesEnd = Null
SpecDuplicate ==
    \E i \in 0..(Len(mediaList) - 1) :
        /\ i # editingIndex
        /\ IsMedia(mediaList[i + 1])
        /\ SameKey(mediaList[i + 1], editingMedia)
ValidationRejects ==
    \/ SpecIncomplete(editingMedia)
    \/ StartSeconds(editingMedia) > EndSeconds(editingMedia)
    \/ SpecDuplicate
ExpectedAlert ==
    IF SpecIncomplete(editingMedia) THEN ""
    ELSE IF StartSeconds(editingMedia) > EndSeconds(editingMedia) THEN "interval"
    ELSE "duplicate"
AddMediaStep == \E f \in BOOLEAN : AddMedia(f)

PersistedMedia ==
    IF storage.kind = "json"
    THEN {storage.items[i] : i \in {j \in 1..Len(storage.items) :
                                       IsMedia(storage.items[j])}}
    ELSE {}

C7_PersistedWeekDaysNonEmpty ==
    \A m \in PersistedMedia : m.weekDays # NullDays /\ m.weekDays # {}

(***************************************************************************)
(* C8: every persisted Media has its six fields populated and              *)
(* startSeconds <= endSeconds.  (A null slot of the persisted array, left  *)
(* by an assignment past the end of the store, is not a Media.)            *)
(***************************************************************************)
C8_PersistedMediaComplete ==
    \A m \in PersistedMedia :
        /\ ~SpecIncomplete(m)
        /\ StartSeconds(m) <= EndSeconds(m)

\* a second entry has just been committed
C8_Witness ==
    /\ outcome.op = "addMedia" /\ outcome.res = "true"
    /\ Cardinality(PersistedMedia) = 2

(***************************************************************************)
(* C9: no two distinct entries of the in-memory store have the same        *)
(* (path, hoursStart, minutesStart).                                       *)
(***************************************************************************)
C9_NoTwoEntriesShareKey ==
    \A i, j \in 1..Len(mediaList) :
        (i < j /\ IsMedia(mediaList[i]) /\ IsMedia(mediaList[j]))
            => ~SameKey(mediaList[i], mediaList[j])

\* a duplicate is rejected after a failed write, with two entries in the store
C9_Witness ==
    /\ outcome = Report("addMedia", "false", "duplicate", "")
    /\ writeFailures > 0
    /\ Len(mediaList) = 2
    /\ IsMedia(mediaList[1]) /\ IsMedia(mediaList[2])
(***************************************************************************)
(* C11: validateTimeInterval is true iff hoursStart, minutesStart,         *)
(* hoursEnd and minutesEnd are all specified and the start seconds are not *)
(* greater than the end seconds, computed without the end pad; so a        *)
(* candidate with start = end is accepted for every label pair and one     *)
(* with start > end is rejected.                                           *)
(***************************************************************************)
IntervalSpecified(m) ==
    /\ m.hoursStart # Null /\ m.minutesStart # Null
    /\ m.hoursEnd # Null /\ m.minutesEnd # Null

C11_ValidIffSpecifiedAndOrdered ==
    Returned("validateTimeInterval") =>
        (outcome.val <=>
            /\ IntervalSpecified(editingMedia)
            /\ StartSeconds(editingMedia) <= EndSeconds(editingMedia))

(***************************************************************************)
(* C12: in every state in which the add/edit dialog is closed (by the      *)
(* close button, by dismissing it, or after a successful commit, and even  *)
(* if a file-selection result arrives later) the editing buffer has all    *)
(* its fields empty and the editing index is absent.                       *)
(***************************************************************************)
C12_ClosedDialogHasEmptyBuffer ==
    (mounted /\ ~addDialog) =>
        /\ editingMedia = EmptyEditingMedia
        /\ editingIndex = Null

(***************************************************************************)
(* C13: when the persisted value cannot be deserialized into a collection, *)
(* loading it on mount gives an empty in-memory collection, no error       *)
(* reaches the caller (mount continues and the scheduler loop starts), and *)
(* the persisted value is left as it was.                                  *)
(***************************************************************************)
OnMountedStep == \E f \in BOOLEAN : OnMounted(f)
Undeserializable(stored) == stored.kind = "corrupt"

C13_CorruptLoadFallsBackToEmpty ==
    [][(OnMountedStep /\ Undeserializable(storage)) =>
          /\ mediaList' = <<>>
          /\ outcome' = Report("onMounted", "ok", "", "")
          /\ running'
          /\ currentMedia' = NoMedia
          /\ storage' = storage]_vars

\* the page has been mounted on a corrupt value and the loop is running
C13_Witness ==
    /\ outcome = Report("onMounted", "ok", "", "")
    /\ Undeserializable(storage)
    /\ running
    /\ mediaList = <<>>

(***************************************************************************)
(* C14: deleteMedia takes effect only after confirmation.  If the caller   *)
(* declines, the store, the persisted collection and the published item    *)
(* are unchanged; if the caller confirms, exactly the entry at the index   *)
(* is removed and the rest is re-sorted and persisted; deleting the only   *)
(* entry leaves an empty persisted store for which updateCurrentMedia      *)
(* yields none at every instant.                                           *)
(***************************************************************************)
DeleteEffect(index, confirmed) ==
    IF ~confirmed
    THEN UNCHANGED <<mediaList, storage, currentMedia>>
    ELSE /\ mediaList' = sortMediaList(SpliceOne(mediaList, index)).val
         /\ storage' = JSONstringify(mediaList')
         /\ Len(mediaList) = 1 =>
                /\ mediaList' = <<>>
                /\ storage' = JSONstringify(<<>>)
                /\ currentMedia' = NoMedia
                /\ \A t \in ClockValues :
                      updateCurrentMedia(mediaList', t)
                          = [threw |-> FALSE, cur |-> NoMedia]

C14_DeleteOnlyAfterConfirmation ==
    [][\A i \in 0..(MaxList - 1), c, f \in BOOLEAN :
          DeleteMedia(i, c, f) => DeleteEffect(i, c)]_vars

(***************************************************************************)
(* C15: initializeLocalStorage writes an empty collection only when no     *)
(* persisted collection exists and never changes an existing one, so       *)
(* running it twice equals running it once; hence on mount previously      *)
(* persisted valid data is preserved and the in-memory store is that data  *)
(* in sorted order.                                                        *)
(***************************************************************************)
SortKeyLeq(a, b) ==
    \/ MinWeekDay(a) < MinWeekDay(b)
    \/ MinWeekDay(a) = MinWeekDay(b) /\ StartSeconds(a) <= StartSeconds(b)
IsOrdered(list) ==
    \A i, j \in 1..Len(list) : i < j => SortKeyLeq(list[i], list[j])
SeqBag(list) == [x \in {list[i] : i \in 1..Len(list)} |->
                    Cardinality({i \in 1..Len(list) : list[i] = x})]
ValidPersisted(stored) ==
    /\ stored.kind = "json"
    /\ \A i \in 1..Len(stored.items) : IsMedia(stored.items[i])

C15_InitializePreservesExisting ==
    [][OnMountedStep =>
          /\ storage.kind # "absent" => storage' = storage
          /\ (storage.kind = "absent" /\ outcome'.res = "ok")
                => storage' = JSONstringify(<<>>)
          /\ initializeLocalStorage(initializeLocalStorage(storage))
                = initializeLocalStorage(storage)
          /\ ValidPersisted(storage) =>
                /\ SeqBag(mediaList') = SeqBag(storage.items)
                /\ IsOrdered(mediaList')
                /\ outcome'.res = "ok"]_vars

\* the page has been mounted again on two entries persisted earlier
C15_Witness ==
    /\ outcome = Report("onMounted", "ok", "", "")
    /\ ValidPersisted(storage)
    /\ Len(mediaList) = 2
    /\ storage.items = mediaList

(***************************************************************************)
(* C16: sortMediaList is idempotent and stable.  For every list L of       *)
(* entries sort(sort(L)) = sort(L); sort(L) is a permutation of L ordered  *)
(* by minimum weekday (entries without weekDays last), then by start       *)
(* seconds without the end pad; entries with equal keys keep their         *)
(* relative order; the argument is left as it was.                         *)
(***************************************************************************)
SameSortKey(a, b) ==
    MinWeekDay(a) = MinWeekDay(b) /\ StartSeconds(a) = StartSeconds(b)
IndexPermutations(n) ==
    {f \in [1..n -> 1..n] : \A i, j \in 1..n : f[i] = f[j] => i = j}
StablePermutationOf(result, list) ==
    /\ Len(result) = Len(list)
    /\ \E f \in IndexPermutations(Len(list)) :
          /\ \A k \in 1..Len(list) : result[k] = list[f[k]]
          /\ \A k, l \in 1..Len(list) :
                (k < l /\ SameSortKey(result[k], result[l])) => f[k] < f[l]

C16_SortIdempotentStableOrdered ==
    (outcome.op = "sortMediaList" /\ outcome.res # "pending") =>
        /\ outcome.res = "returned"
        /\ sortMediaList(outcome.val) = [threw |-> FALSE, val |-> outcome.val]
        /\ StablePermutationOf(outcome.val, outcome.args[1])
        /\ IsOrdered(outcome.val)

(***************************************************************************)
(* C17: in every state a scheduler tick can observe (after load and after  *)
(* any sequence of add, edit and delete, whether the commit succeeded or   *)
(* failed) the entries of the in-memory store are in ascending order of    *)
(* minimum weekday (8 for an entry with no weekDays), then of start        *)
(* seconds.                                                                *)
(***************************************************************************)
C17_StoreStaysSorted ==
    running =>
        \A i, j \in 1..Len(mediaList) :
            (i < j /\ IsMedia(mediaList[i]) /\ IsMedia(mediaList[j]))
                => SortKeyLeq(mediaList[i], mediaList[j])

\* an entry with a weekday stands before an earlier entry without weekdays,
\* after a commit whose write failed
C17_Witness ==
    /\ running
    /\ outcome = Report("addMedia", "false", "saveError", "QuotaExceededError")
    /\ Len(mediaList) = 2
    /\ IsMedia(mediaList[1]) /\ IsMedia(mediaList[2])
    /\ MinWeekDay(mediaList[1]) < MinWeekDay(mediaList[2])
    /\ StartSeconds(mediaList[1]) > StartSeconds(mediaList[2])

(***************************************************************************)
(* C18: no scheduler tick reads a partially applied mutation: the store a  *)
(* tick observes is the outcome of mutations each of which was carried     *)
(* through (mutated, re-sorted and persisted), so it is in sorted order    *)
(* and it is what loading the persisted collection gives.                  *)
(***************************************************************************)
C18_TickObservesCompletedMutations ==
    [][Tick =>
          /\ mediaList = loadMediaList(storage, <<>>)
          /\ sortMediaList(mediaList) = [threw |-> FALSE, val |-> mediaList]]_vars

(***************************************************************************)
(* C19: whenever the editing index is present it is a position of the      *)
(* in-memory store and the entry at that position is the one that was      *)
(* opened for editing, whatever happens between opening the edit and the   *)
(* next commit; so a successful commit with the index present keeps the    *)
(* length of the store, and one with the index absent appends exactly one  *)
(* entry.                                                                  *)
(***************************************************************************)
C19_EditingIndexDenotesOpenedEntry ==
    /\ [](editingIndex # Null => editingIndex \in 0..(Len(mediaList) - 1))
    /\ [][(AddMediaStep /\ outcome'.res = "true") =>
              Len(mediaList') = IF editingIndex # Null
                                THEN Len(mediaList)
                                ELSE Len(mediaList) + 1]_vars

(***************************************************************************)
(* C20: while the loop is running, the published item (currentMedia) is    *)
(* none or an entry contained in the in-memory store; in particular, once  *)
(* an add, edit or delete has returned, successfully or not, a deleted or  *)
(* replaced entry is no longer published.                                  *)
(***************************************************************************)
C20_PublishedItemIsInStore ==
    running =>
        \/ currentMedia = NoMedia
        \/ \E i \in 1..Len(mediaList) : mediaList[i] = currentMedia

(***************************************************************************)
(* C21: once the window of the published entry has passed (the seconds of  *)
(* the day exceed its end seconds + 59, or the weekday no longer matches)  *)
(* and no other entry is active, the next scheduler tick publishes none;   *)
(* and when some entry is active while the loop is running, the next tick  *)
(* publishes it or an active entry ordered before it.  A tick depends on   *)
(* the store and the clock only, so a missed tick costs nothing but time.  *)
(***************************************************************************)
EligibleNow ==
    {i \in 1..Len(mediaList) :
        IsMedia(mediaList[i]) /\ Eligible(mediaList[i], now)}

C21_NextTickPublishesActiveOrNone ==
    [][Tick =>
          IF EligibleNow = {}
          THEN currentMedia' = NoMedia
          ELSE currentMedia' = mediaList[SetMin(EligibleNow)]]_vars

====
